---- MODULE Spec2Model ----
(***************************************************************************)
(* The RSI long-only backtests of rsi_strategy.py, plot_simple_rsi.py and  *)
(* fixed_size_analysis.py: the bar loop that opens and closes one position *)
(* on the RSI column, the trade ledger and equity curve it builds, and the *)
(* statistics computed after the loop.                                     *)
(*                                                                         *)
(* Numbers.  The scripts compute in floating point; the model computes in  *)
(* exact rationals <<n, d>> (d > 0, lowest terms).  "Float" values that    *)
(* can be NaN or infinite (the RSI column, the 'return' field, the         *)
(* statistics) are records [k, v] with k in {"num", "nan", "inf", "ninf"}. *)
(*                                                                         *)
(* Inputs.  A date is the row index of the bar in df.  The loop reads one  *)
(* row (Close, RSI) per iteration; the model draws each row when the loop  *)
(* reaches it, so a run of the model is a run of the script on the table   *)
(* made of the rows drawn.  The RSI column is an input of the loop: its    *)
(* computation is modelled on its own (RSIIndicator, SpecRSI).             *)
(*                                                                         *)
(* Configuration.  rsi_strategy.py fixes KELLY_FRACTION = 0.3244 and       *)
(* TRADING_FEE_PCT = SLIPPAGE_PCT = 0.001.  With these values the exact    *)
(* numerators leave TLC's 32-bit integers on the first bar held, so the    *)
(* model draws the three parameters from Configs, a small set of rationals *)
(* in [0, 1] that contains both ends of the Kelly range.  The constants of *)
(* the two other scripts (0.20, 20000, 100) are the source's.              *)
(***************************************************************************)
EXTENDS Integers, Sequences, FiniteSets, TLC

VARIABLES
    script,                 \* which of the three scripts is running
    KELLY_FRACTION,         \* rsi_strategy.py:57
    TRADING_FEE_PCT,        \* rsi_strategy.py:59
    SLIPPAGE_PCT,           \* rsi_strategy.py:60
    df,                     \* the rows of df read so far: [Close, RSI]
    i,                      \* the loop index: the row the next iteration reads
    capital,
    position,
    trades,
    portfolio_values,
    dates,
    current_shares,
    total_pnl,
    trade_size,
    entry_portfolio_value,
    pc,                     \* "loop" | "done" | "input" | "computed"
    outcome,                \* "" while running, then "ok" or the exception raised
    metrics,                \* the statistics the script computed
    close,                  \* SpecRSI: the close series handed to RSIIndicator
    window,                 \* SpecRSI: its window
    rsi                     \* SpecRSI: the series rsi() returned

vars == <<script, KELLY_FRACTION, TRADING_FEE_PCT, SLIPPAGE_PCT, df, i, capital,
          position, trades, portfolio_values, dates, current_shares, total_pnl,
          trade_size, entry_portfolio_value, pc, outcome, metrics, close,
          window, rsi>>

-----------------------------------------------------------------------------
(* Bounds of the model *)

\* bars the loop walks at most (len(df) - RSI_WINDOW)
MaxBars == 4
\* SpecRSI: longest close series
MaxSeries == 4
\* SpecDrawdown: longest equity curve
MaxCurve == 4

\* close prices of the rows drawn
Prices == {1, 2}
\* SpecRSI: close prices
Closes == {1, 2, 3}
\* SpecDrawdown: equity values
Equities == {1, 2, 3}

-----------------------------------------------------------------------------
(* Program constants *)

RSI_WINDOW == 5
RSI_OVERBOUGHT == 70
INITIAL_CAPITAL == 100000
INITIAL_TRADE_SIZE == 20000
FIXED_TRADE_SIZE == 100
POSITION_SIZE_PCT == <<1, 5>>

-----------------------------------------------------------------------------
(* Exact rational arithmetic for the scripts' float expressions *)

Abs(n) == IF n < 0 THEN -n ELSE n

RECURSIVE GCD(_, _)
GCD(a, b) == IF b = 0 THEN a ELSE GCD(b, a % b)

Norm(n, d) ==
    LET g == GCD(Abs(n), d)
    IN  <<n \div g, d \div g>>

R(n) == <<n, 1>>
Zero == <<0, 1>>
Hundred == <<100, 1>>

RAdd(a, b) ==
    LET g == GCD(a[2], b[2])
    IN  Norm(a[1] * (b[2] \div g) + b[1] * (a[2] \div g), (a[2] \div g) * b[2])
RSub(a, b) == RAdd(a, <<-b[1], b[2]>>)
RMul(a, b) ==
    LET g1 == GCD(Abs(a[1]), b[2])
        g2 == GCD(Abs(b[1]), a[2])
    IN  IF a[1] = 0 \/ b[1] = 0 THEN Zero
        ELSE <<(a[1] \div g1) * (b[1] \div g2), (a[2] \div g2) * (b[2] \div g1)>>
\* b # 0
RDiv(a, b) ==
    IF b[1] > 0 THEN RMul(a, <<b[2], b[1]>>) ELSE RMul(a, <<-b[2], -b[1]>>)
RLt(a, b) == a[1] * b[2] < b[1] * a[2]
RLe(a, b) == a[1] * b[2] <= b[1] * a[2]
RAbs(a) == <<Abs(a[1]), a[2]>>

\* a variable the script has not assigned yet
Unset == <<0, 0>>

(* floats that may be NaN or infinite *)
Num(r) == [k |-> "num", v |-> r]
NaN == [k |-> "nan", v |-> Zero]
Inf == [k |-> "inf", v |-> Zero]
NegInf == [k |-> "ninf", v |-> Zero]
NotComputed == [k |-> "unset", v |-> Zero]

\* x > y and x < y on floats: False when either side is NaN
FGt(x, y) == x.k = "num" /\ y.k = "num" /\ RLt(y.v, x.v)
FLt(x, y) == x.k = "num" /\ y.k = "num" /\ RLt(x.v, y.v)

\* numpy float64 division: x/0 is +-inf or nan (a RuntimeWarning, no exception)
FDiv(x, y) ==
    IF x.k = "nan" \/ y.k = "nan" THEN NaN
    ELSE IF y.k = "num" /\ x.k = "num" THEN
        IF y.v[1] = 0
        THEN IF x.v[1] = 0 THEN NaN ELSE IF x.v[1] > 0 THEN Inf ELSE NegInf
        ELSE Num(RDiv(x.v, y.v))
    ELSE IF x.k = "num" THEN Num(Zero)
    ELSE IF y.k = "num" THEN
        IF (x.k = "inf") = (y.v[1] >= 0) THEN Inf ELSE NegInf
    ELSE NaN

FSub(x, y) ==
    IF x.k = "nan" \/ y.k = "nan" THEN NaN
    ELSE IF x.k = "num" /\ y.k = "num" THEN Num(RSub(x.v, y.v))
    ELSE IF x.k = "num" THEN (IF y.k = "inf" THEN NegInf ELSE Inf)
    ELSE IF y.k = "num" THEN x
    ELSE IF x.k = y.k THEN NaN ELSE x

FMul(x, y) ==
    IF x.k = "num" /\ y.k = "num" THEN Num(RMul(x.v, y.v))
    ELSE IF x.k = "nan" \/ y.k = "nan" THEN NaN
    ELSE IF (x.k = "num" /\ x.v[1] = 0) \/ (y.k = "num" /\ y.v[1] = 0) THEN NaN
    ELSE IF (x.k = "ninf" \/ (x.k = "num" /\ x.v[1] < 0))
             = (y.k = "ninf" \/ (y.k = "num" /\ y.v[1] < 0)) THEN Inf
    ELSE NegInf

FAbs(x) ==
    IF x.k = "num" THEN Num(RAbs(x.v))
    ELSE IF x.k = "ninf" THEN Inf ELSE x

-----------------------------------------------------------------------------
(* Inputs *)

\* the (KELLY_FRACTION, TRADING_FEE_PCT, SLIPPAGE_PCT) rsi_strategy.py runs with
Configs ==
    { [kelly |-> <<0, 1>>, fee |-> <<1, 10>>, slip |-> <<1, 10>>],
      [kelly |-> <<1, 2>>, fee |-> <<1, 5>>, slip |-> <<1, 20>>],
      [kelly |-> <<1, 1>>, fee |-> <<1, 10>>, slip |-> <<1, 10>>],
      [kelly |-> <<1, 2>>, fee |-> Zero, slip |-> Zero] }

\* the values df['RSI'].iloc[i] can hold: undefined, below, at and above the threshold
RsiInputs ==
    { NaN, Num(R(RSI_OVERBOUGHT - 10)), Num(R(RSI_OVERBOUGHT)),
      Num(R(RSI_OVERBOUGHT + 10)) }

Scripts == {"rsi_strategy", "plot_simple_rsi", "fixed_size_analysis"}

-----------------------------------------------------------------------------
(* The expressions of the bar loop *)

\* mutant of EntrySignal: the position flag is not consulted
EntrySignalIgnoringPosition(pos, current_rsi) ==
    FGt(current_rsi, Num(R(RSI_OVERBOUGHT)))

\* if not position and current_rsi > RSI_OVERBOUGHT
EntrySignal(pos, current_rsi) ==
    ~pos /\ FGt(current_rsi, Num(R(RSI_OVERBOUGHT)))

\* mutant of ExitSignal: <= for <
ExitSignalAtThreshold(pos, current_rsi) ==
    pos /\ current_rsi.k = "num" /\ RLe(current_rsi.v, R(RSI_OVERBOUGHT))

\* elif position and current_rsi < RSI_OVERBOUGHT
ExitSignal(pos, current_rsi) ==
    pos /\ FLt(current_rsi, Num(R(RSI_OVERBOUGHT)))

\* current_portfolio_value = capital (+ current_shares * current_price if position)
CurrentPortfolioValue(cap, pos, shares, price) ==
    IF pos THEN RAdd(cap, RMul(shares, price)) ELSE cap

\* trade_size = current_portfolio_value * KELLY_FRACTION
KellyTradeSize(value) == RMul(value, KELLY_FRACTION)

\* current_price * (1 + TRADING_FEE_PCT + SLIPPAGE_PCT)
EffectiveEntryPrice(price) ==
    RMul(price, RAdd(RAdd(R(1), TRADING_FEE_PCT), SLIPPAGE_PCT))

\* current_price * (1 - TRADING_FEE_PCT - SLIPPAGE_PCT)
EffectiveExitPrice(price) ==
    RMul(price, RSub(RSub(R(1), TRADING_FEE_PCT), SLIPPAGE_PCT))

\* mutant of CapitalAfterEntry: the entry costs are charged on top of the size
CapitalAfterEntryCostOnTop(cap, size) ==
    RSub(cap, RMul(size, RAdd(RAdd(R(1), TRADING_FEE_PCT), SLIPPAGE_PCT)))

\* capital -= trade_size
CapitalAfterEntry(cap, size) == RSub(cap, size)

\* capital += exit_value
CapitalAfterExit(cap, exit_value) == RAdd(cap, exit_value)

\* (pnl / trade_size) * 100
ReturnPct(pnl, size) == FMul(FDiv(Num(pnl), Num(size)), Num(Hundred))

\* mutant of PortfolioValue: the open position is not marked to market
PortfolioValueCashOnly(cap, pos, shares, price) == cap

\* portfolio_value = capital + (current_shares * current_price if position else 0)
PortfolioValue(cap, pos, shares, price) ==
    RAdd(cap, IF pos THEN RMul(shares, price) ELSE Zero)

\* mutant of TrackValue: a point is recorded only when the value moved
TrackValueOnChange(values, value) ==
    IF value = values[Len(values)] THEN values ELSE Append(values, value)

\* portfolio_values.append(portfolio_value)
TrackValue(values, value) == Append(values, value)

\* the rows the loop has walked: range(RSI_WINDOW, len(df)) so far
BarsWalked == i - RSI_WINDOW

-----------------------------------------------------------------------------
(* rsi_strategy.py *)

\* mutant of StrategyPnl: the exit is measured against the initial capital
StrategyPnlSinceStart(exit_portfolio_value, entry_value) ==
    RSub(exit_portfolio_value, R(INITIAL_CAPITAL))

\* strategy_pnl = exit_portfolio_value - entry_portfolio_value
StrategyPnl(exit_portfolio_value, entry_value) ==
    RSub(exit_portfolio_value, entry_value)

\* the state after the if / elif of one iteration
RsiStrategyBranch(date, price, current_rsi) ==
    LET current_portfolio_value ==
            CurrentPortfolioValue(capital, position, current_shares, price)
        size == KellyTradeSize(current_portfolio_value)
    IN  IF EntrySignal(position, current_rsi) THEN
            LET effective_entry_price == EffectiveEntryPrice(price)
                shares == RDiv(size, effective_entry_price)
            IN  [ position |-> TRUE,
                  trade_size |-> size,
                  current_shares |-> shares,
                  capital |-> CapitalAfterEntry(capital, size),
                  entry_portfolio_value |-> current_portfolio_value,
                  total_pnl |-> total_pnl,
                  trades |-> Append(trades,
                      [ date |-> date, type |-> "BUY", price |-> price,
                        effective_price |-> effective_entry_price,
                        shares |-> shares, trade_size |-> size,
                        fees |-> RMul(size, TRADING_FEE_PCT),
                        slippage |-> RMul(size, SLIPPAGE_PCT),
                        portfolio_value |-> current_portfolio_value ]) ]
        ELSE IF ExitSignal(position, current_rsi) THEN
            LET effective_exit_price == EffectiveExitPrice(price)
                exit_value == RMul(current_shares, effective_exit_price)
                trade_pnl == RSub(exit_value, size)
                exit_portfolio_value == CapitalAfterExit(capital, exit_value)
                strategy_pnl ==
                    StrategyPnl(exit_portfolio_value, entry_portfolio_value)
            IN  [ position |-> FALSE,
                  trade_size |-> size,
                  current_shares |-> Zero,
                  capital |-> exit_portfolio_value,
                  entry_portfolio_value |-> entry_portfolio_value,
                  total_pnl |-> RAdd(total_pnl, strategy_pnl),
                  trades |-> Append(trades,
                      [ date |-> date, type |-> "SELL", price |-> price,
                        effective_price |-> effective_exit_price,
                        shares |-> current_shares, trade_size |-> size,
                        trade_pnl |-> trade_pnl,
                        strategy_pnl |-> strategy_pnl,
                        fees |-> RMul(exit_value, TRADING_FEE_PCT),
                        slippage |-> RMul(exit_value, SLIPPAGE_PCT),
                        portfolio_value |-> exit_portfolio_value,
                        return |-> ReturnPct(trade_pnl, size) ]) ]
        ELSE    [ position |-> position,
                  trade_size |-> size,
                  current_shares |-> current_shares,
                  capital |-> capital,
                  entry_portfolio_value |-> entry_portfolio_value,
                  total_pnl |-> total_pnl,
                  trades |-> trades ]

\* one iteration of: for i in range(RSI_WINDOW, len(df))
RsiStrategyBar ==
    /\ script = "rsi_strategy"
    /\ pc = "loop"
    /\ BarsWalked < MaxBars
    /\ \E current_price \in Prices, current_rsi \in RsiInputs :
        LET new == RsiStrategyBranch(i, R(current_price), current_rsi)
        IN  /\ df' = Append(df, [Close |-> R(current_price), RSI |-> current_rsi])
            /\ position' = new.position
            /\ trade_size' = new.trade_size
            /\ current_shares' = new.current_shares
            /\ capital' = new.capital
            /\ entry_portfolio_value' = new.entry_portfolio_value
            /\ total_pnl' = new.total_pnl
            /\ trades' = new.trades
            /\ portfolio_values' = TrackValue(portfolio_values,
                   PortfolioValue(new.capital, new.position, new.current_shares,
                                  R(current_price)))
            /\ dates' = Append(dates, i)
    /\ i' = i + 1
    /\ UNCHANGED <<script, KELLY_FRACTION, TRADING_FEE_PCT, SLIPPAGE_PCT, pc,
                   outcome, metrics, close, window, rsi>>

-----------------------------------------------------------------------------
(* plot_simple_rsi.py *)

\* trade_size = INITIAL_TRADE_SIZE if len(portfolio_values) <= 1
\*              else current_portfolio_value * POSITION_SIZE_PCT
SimpleTradeSize(values, value) ==
    IF Len(values) <= 1 THEN R(INITIAL_TRADE_SIZE)
    ELSE RMul(value, POSITION_SIZE_PCT)

PlotSimpleRsiBranch(date, price, current_rsi) ==
    LET current_portfolio_value ==
            CurrentPortfolioValue(capital, position, current_shares, price)
        size == SimpleTradeSize(portfolio_values, current_portfolio_value)
    IN  IF EntrySignal(position, current_rsi) THEN
            LET shares == RDiv(size, price)
            IN  [ position |-> TRUE,
                  trade_size |-> size,
                  current_shares |-> shares,
                  capital |-> CapitalAfterEntry(capital, size),
                  trades |-> Append(trades,
                      [ date |-> date, type |-> "BUY", price |-> price,
                        shares |-> shares, trade_size |-> size ]) ]
        ELSE IF ExitSignal(position, current_rsi) THEN
            LET exit_value == RMul(current_shares, price)
                pnl == RSub(exit_value, size)
            IN  [ position |-> FALSE,
                  trade_size |-> size,
                  current_shares |-> Zero,
                  capital |-> CapitalAfterExit(capital, exit_value),
                  trades |-> Append(trades,
                      [ date |-> date, type |-> "SELL", price |-> price,
                        shares |-> current_shares, trade_size |-> size,
                        pnl |-> pnl, return |-> ReturnPct(pnl, size) ]) ]
        ELSE    [ position |-> position,
                  trade_size |-> size,
                  current_shares |-> current_shares,
                  capital |-> capital,
                  trades |-> trades ]

\* one iteration of: for i in range(RSI_WINDOW, len(df))
PlotSimpleRsiBar ==
    /\ script = "plot_simple_rsi"
    /\ pc = "loop"
    /\ BarsWalked < MaxBars
    /\ \E current_price \in Prices, current_rsi \in RsiInputs :
        LET new == PlotSimpleRsiBranch(i, R(current_price), current_rsi)
        IN  /\ df' = Append(df, [Close |-> R(current_price), RSI |-> current_rsi])
            /\ position' = new.position
            /\ trade_size' = new.trade_size
            /\ current_shares' = new.current_shares
            /\ capital' = new.capital
            /\ trades' = new.trades
            /\ portfolio_values' = TrackValue(portfolio_values,
                   PortfolioValue(new.capital, new.position, new.current_shares,
                                  R(current_price)))
            /\ dates' = Append(dates, i)
    /\ i' = i + 1
    /\ UNCHANGED <<script, KELLY_FRACTION, TRADING_FEE_PCT, SLIPPAGE_PCT,
                   total_pnl, entry_portfolio_value, pc, outcome, metrics,
                   close, window, rsi>>

-----------------------------------------------------------------------------
(* fixed_size_analysis.py *)

FixedSizeBranch(date, price, current_rsi) ==
    IF EntrySignal(position, current_rsi) THEN
        LET shares == RDiv(R(FIXED_TRADE_SIZE), price)
        IN  [ position |-> TRUE,
              current_shares |-> shares,
              trades |-> Append(trades,
                  [ date |-> date, type |-> "BUY", price |-> price,
                    shares |-> shares, trade_size |-> R(FIXED_TRADE_SIZE) ]) ]
    ELSE IF ExitSignal(position, current_rsi) THEN
        LET exit_value == RMul(current_shares, price)
            pnl == RSub(exit_value, R(FIXED_TRADE_SIZE))
        IN  [ position |-> FALSE,
              current_shares |-> Zero,
              trades |-> Append(trades,
                  [ date |-> date, type |-> "SELL", price |-> price,
                    shares |-> current_shares,
                    trade_size |-> R(FIXED_TRADE_SIZE),
                    pnl |-> pnl,
                    return |-> ReturnPct(pnl, R(FIXED_TRADE_SIZE)) ]) ]
    ELSE    [ position |-> position,
              current_shares |-> current_shares,
              trades |-> trades ]

\* one iteration of: for i in range(RSI_WINDOW, len(df))
FixedSizeBar ==
    /\ script = "fixed_size_analysis"
    /\ pc = "loop"
    /\ BarsWalked < MaxBars
    /\ \E current_price \in Prices, current_rsi \in RsiInputs :
        LET new == FixedSizeBranch(i, R(current_price), current_rsi)
        IN  /\ df' = Append(df, [Close |-> R(current_price), RSI |-> current_rsi])
            /\ position' = new.position
            /\ current_shares' = new.current_shares
            /\ trades' = new.trades
    /\ i' = i + 1
    /\ UNCHANGED <<script, KELLY_FRACTION, TRADING_FEE_PCT, SLIPPAGE_PCT,
                   capital, portfolio_values, dates, total_pnl, trade_size,
                   entry_portfolio_value, pc, outcome, metrics, close, window,
                   rsi>>

-----------------------------------------------------------------------------
(* pandas on the ledger and on the equity curve *)

IsSell(t) == t.type = "SELL"

\* trades_df[trades_df['type'] == 'SELL']
SellTrades(ledger) == SelectSeq(ledger, IsSell)

RECURSIVE SumSeq(_)
SumSeq(xs) == IF xs = <<>> THEN Zero ELSE RAdd(Head(xs), SumSeq(Tail(xs)))

IsNum(x) == x.k = "num"

\* Series.mean(): NaN entries are skipped, the mean of nothing is NaN
MeanF(xs) ==
    LET nums == SelectSeq(xs, IsNum)
    IN  IF nums = <<>> THEN NaN
        ELSE Num(RDiv(SumSeq([n \in 1..Len(nums) |-> nums[n].v]), R(Len(nums))))

RECURSIVE MinSeq(_)
MinSeq(xs) ==
    IF Len(xs) = 1 THEN Head(xs)
    ELSE LET m == MinSeq(Tail(xs))
         IN  IF RLt(m, Head(xs)) THEN m ELSE Head(xs)

\* Series.min(): NaN entries are skipped, the minimum of nothing is NaN
MinF(xs) ==
    LET nums == SelectSeq(xs, IsNum)
    IN  IF nums = <<>> THEN NaN
        ELSE Num(MinSeq([n \in 1..Len(nums) |-> nums[n].v]))

\* mutant of Cummax: max() of the whole column for cummax()
SeriesMax(values, t) ==
    CHOOSE m \in {values[k] : k \in 1..Len(values)} :
        \A k \in 1..Len(values) : RLe(values[k], m)

\* portfolio_df['Portfolio_Value'].cummax() at row t
RECURSIVE Cummax(_, _)
Cummax(values, t) ==
    IF t = 1 THEN values[1]
    ELSE LET m == Cummax(values, t - 1)
         IN  IF RLt(m, values[t]) THEN values[t] ELSE m

\* (Portfolio_Value - Cummax) / Cummax * 100, row by row
Drawdown(values) ==
    [t \in 1..Len(values) |->
        FMul(FDiv(Num(RSub(values[t], Cummax(values, t))),
                  Num(Cummax(values, t))),
             Num(Hundred))]

\* max_drawdown = portfolio_df['Drawdown'].min()
MaxDrawdown(values) == MinF(Drawdown(values))

\* current_drawdown = portfolio_df['Drawdown'].iloc[-1]
CurrentDrawdown(values) == Drawdown(values)[Len(values)]

\* (sell_trades[column] > 0).mean() * 100
WinRatePct(pnls) ==
    LET wins == SelectSeq(pnls, LAMBDA x : RLt(Zero, x))
    IN  FMul(FDiv(Num(R(Len(wins))), Num(R(Len(pnls)))), Num(Hundred))

\* (portfolio_df['Portfolio_Value'].iloc[-1] / INITIAL_CAPITAL - 1) * 100
TotalReturn(values) ==
    Num(RMul(RSub(RDiv(values[Len(values)], R(INITIAL_CAPITAL)), R(1)), Hundred))

NoMetrics ==
    [ win_rate |-> NotComputed, total_return |-> NotComputed,
      max_drawdown |-> NotComputed, current_drawdown |-> NotComputed,
      avg_win |-> NotComputed, avg_loss |-> NotComputed,
      win_loss_ratio |-> NotComputed, kelly |-> NotComputed,
      profit_factor |-> NotComputed ]

-----------------------------------------------------------------------------
(* The end of the loop and the statistics after it *)

\* rsi_strategy.py from trades_df = pd.DataFrame(trades) to the title and prints.
\* An empty ledger skips the if, and the title reads total_return and win_rate
\* unassigned; a ledger of one BUY has no 'trade_pnl' column.
RsiStrategyMetrics ==
    /\ script = "rsi_strategy"
    /\ pc = "loop"
    /\ pc' = "done"
    /\ LET sell_trades == SellTrades(trades)
           pnls == [n \in 1..Len(sell_trades) |-> sell_trades[n].trade_pnl]
       IN  IF trades # <<>> /\ sell_trades = <<>> THEN
               /\ outcome' = "KeyError"
               /\ metrics' = metrics
           ELSE
               /\ outcome' = IF trades = <<>> THEN "NameError" ELSE "ok"
               /\ metrics' =
                    [metrics EXCEPT
                       !.win_rate = IF trades = <<>> THEN @ ELSE WinRatePct(pnls),
                       !.total_return =
                           IF trades = <<>> THEN @ ELSE TotalReturn(portfolio_values),
                       !.max_drawdown = MaxDrawdown(portfolio_values),
                       !.current_drawdown = CurrentDrawdown(portfolio_values)]
    /\ UNCHANGED <<script, KELLY_FRACTION, TRADING_FEE_PCT, SLIPPAGE_PCT, df, i,
                   capital, position, trades, portfolio_values, dates,
                   current_shares, total_pnl, trade_size, entry_portfolio_value,
                   close, window, rsi>>

\* plot_simple_rsi.py from trades_df = pd.DataFrame(trades) to the title and
\* prints: as rsi_strategy.py, with total_pnl summed from the 'pnl' column.
PlotSimpleRsiMetrics ==
    /\ script = "plot_simple_rsi"
    /\ pc = "loop"
    /\ pc' = "done"
    /\ LET sell_trades == SellTrades(trades)
           pnls == [n \in 1..Len(sell_trades) |-> sell_trades[n].pnl]
       IN  IF trades # <<>> /\ sell_trades = <<>> THEN
               /\ outcome' = "KeyError"
               /\ metrics' = metrics
               /\ total_pnl' = total_pnl
           ELSE
               /\ outcome' = IF trades = <<>> THEN "NameError" ELSE "ok"
               /\ total_pnl' = IF trades = <<>> THEN total_pnl ELSE SumSeq(pnls)
               /\ metrics' =
                    [metrics EXCEPT
                       !.win_rate = IF trades = <<>> THEN @ ELSE WinRatePct(pnls),
                       !.total_return =
                           IF trades = <<>> THEN @ ELSE TotalReturn(portfolio_values),
                       !.max_drawdown = MaxDrawdown(portfolio_values),
                       !.current_drawdown = CurrentDrawdown(portfolio_values)]
    /\ UNCHANGED <<script, KELLY_FRACTION, TRADING_FEE_PCT, SLIPPAGE_PCT, df, i,
                   capital, position, trades, portfolio_values, dates,
                   current_shares, trade_size, entry_portfolio_value, close,
                   window, rsi>>

\* win_rate = len(wins) / len(sell_trades): Python ints
WinRate(wins, sell_trades) == Num(RDiv(R(Len(wins)), R(Len(sell_trades))))

\* avg_win = wins['return'].mean() / 100
AvgWin(wins) ==
    FDiv(MeanF([n \in 1..Len(wins) |-> wins[n].return]), Num(Hundred))

\* avg_loss = abs(losses['return'].mean()) / 100
AvgLoss(losses) ==
    FDiv(FAbs(MeanF([n \in 1..Len(losses) |-> losses[n].return])), Num(Hundred))

\* win_loss_ratio = avg_win / avg_loss
WinLossRatio(avg_win, avg_loss) == FDiv(avg_win, avg_loss)

\* kelly = win_rate - ((1 - win_rate) / win_loss_ratio)
Kelly(win_rate, win_loss_ratio) ==
    FSub(win_rate, FDiv(FSub(Num(R(1)), win_rate), win_loss_ratio))

\* abs(wins['pnl'].sum() / losses['pnl'].sum()) if len(losses) > 0 else float('inf')
ProfitFactor(wins, losses) ==
    IF Len(losses) > 0
    THEN FAbs(FDiv(Num(SumSeq([n \in 1..Len(wins) |-> wins[n].pnl])),
                   Num(SumSeq([n \in 1..Len(losses) |-> losses[n].pnl]))))
    ELSE Inf

\* fixed_size_analysis.py from trades_df = pd.DataFrame(trades) to the prints.
\* An empty ledger has no 'type' column, a ledger of one BUY no 'pnl' column.
\* (sharpe, a square root, is left out: nothing reads it.)
FixedSizeMetrics ==
    /\ script = "fixed_size_analysis"
    /\ pc = "loop"
    /\ pc' = "done"
    /\ LET sell_trades == SellTrades(trades)
           wins == SelectSeq(sell_trades, LAMBDA t : RLt(Zero, t.pnl))
           losses == SelectSeq(sell_trades, LAMBDA t : RLe(t.pnl, Zero))
           win_rate == WinRate(wins, sell_trades)
           avg_win == AvgWin(wins)
           avg_loss == AvgLoss(losses)
           win_loss_ratio == WinLossRatio(avg_win, avg_loss)
       IN  IF sell_trades = <<>> THEN
               /\ outcome' = "KeyError"
               /\ metrics' = metrics
               /\ total_pnl' = total_pnl
           ELSE
               /\ outcome' = "ok"
               /\ total_pnl' = SumSeq([n \in 1..Len(sell_trades) |-> sell_trades[n].pnl])
               /\ metrics' =
                    [metrics EXCEPT
                       !.win_rate = win_rate,
                       !.avg_win = avg_win,
                       !.avg_loss = avg_loss,
                       !.win_loss_ratio = win_loss_ratio,
                       !.kelly = Kelly(win_rate, win_loss_ratio),
                       !.profit_factor = ProfitFactor(wins, losses),
                       !.max_drawdown =
                           MinF([n \in 1..Len(sell_trades) |-> sell_trades[n].return])]
    /\ UNCHANGED <<script, KELLY_FRACTION, TRADING_FEE_PCT, SLIPPAGE_PCT, df, i,
                   capital, position, trades, portfolio_values, dates,
                   current_shares, trade_size, entry_portfolio_value, close,
                   window, rsi>>

-----------------------------------------------------------------------------
(* The backtests *)

\* the parameters a script runs with: only rsi_strategy.py has them
ConfigsOf(s) ==
    IF s = "rsi_strategy" THEN Configs
    ELSE {[kelly |-> Unset, fee |-> Unset, slip |-> Unset]}

\* the variables as the scripts initialise them before the loop
Init ==
    /\ script \in Scripts
    /\ \E c \in ConfigsOf(script) :
        /\ KELLY_FRACTION = c.kelly
        /\ TRADING_FEE_PCT = c.fee
        /\ SLIPPAGE_PCT = c.slip
    /\ df = <<>>
    /\ i = RSI_WINDOW
    /\ capital = IF script = "fixed_size_analysis" THEN Unset ELSE R(INITIAL_CAPITAL)
    /\ position = FALSE
    /\ trades = <<>>
    /\ portfolio_values =
           IF script = "fixed_size_analysis" THEN <<>> ELSE <<R(INITIAL_CAPITAL)>>
    /\ dates = IF script = "fixed_size_analysis" THEN <<>> ELSE <<0>>
    /\ current_shares = Zero
    /\ total_pnl = IF script = "rsi_strategy" THEN Zero ELSE Unset
    /\ trade_size = Unset
    /\ entry_portfolio_value = Unset
    /\ pc = "loop"
    /\ outcome = ""
    /\ metrics = NoMetrics
    /\ close = <<>>
    /\ window = 0
    /\ rsi = <<>>

Next ==
    \/ RsiStrategyBar
    \/ RsiStrategyMetrics
    \/ PlotSimpleRsiBar
    \/ PlotSimpleRsiMetrics
    \/ FixedSizeBar
    \/ FixedSizeMetrics

Spec == Init /\ [][Next]_vars

-----------------------------------------------------------------------------
(* The RSI column: RSIIndicator(close=df['Close'], window=RSI_WINDOW).rsi(),  *)
(* as the ta library computes it:                                          *)
(*   diff = close.diff(1)                                                  *)
(*   up_direction = diff.where(diff > 0, 0.0)                              *)
(*   down_direction = -diff.where(diff < 0, 0.0)                           *)
(*   emaup = up_direction.ewm(alpha=1/window, min_periods=window,          *)
(*                            adjust=False).mean()                         *)
(*   emadn = down_direction.ewm(...the same...).mean()                     *)
(*   rsi = where(emadn == 0, 100, 100 - (100 / (1 + emaup / emadn)))       *)
(* Row t of the model is row t - 1 of the series.                          *)

\* diff.where(diff > 0, 0.0): the first diff is NaN and becomes 0.0
UpDirection(c) ==
    [t \in 1..Len(c) |->
        IF t > 1 /\ c[t] > c[t - 1] THEN R(c[t] - c[t - 1]) ELSE Zero]

\* -diff.where(diff < 0, 0.0)
DownDirection(c) ==
    [t \in 1..Len(c) |->
        IF t > 1 /\ c[t] < c[t - 1] THEN R(c[t - 1] - c[t]) ELSE Zero]

\* x.ewm(alpha=1/w, adjust=False).mean() at row t:
\* y[0] = x[0], y[t] = (1 - 1/w) * y[t-1] + (1/w) * x[t]
RECURSIVE Ewm(_, _, _)
Ewm(x, w, t) ==
    IF t = 1 THEN x[1]
    ELSE RAdd(RMul(<<w - 1, w>>, Ewm(x, w, t - 1)), RMul(<<1, w>>, x[t]))

\* mutant of RsiValue: no gain and no loss reads as neutral
RsiValueNeutralWhenFlat(emaup, emadn) ==
    IF emadn = Zero THEN (IF emaup = Zero THEN Num(R(50)) ELSE Num(Hundred))
    ELSE Num(RSub(Hundred, RDiv(Hundred, RAdd(R(1), RDiv(emaup, emadn)))))

\* where(emadn == 0, 100, 100 - (100 / (1 + emaup / emadn)))
RsiValue(emaup, emadn) ==
    IF emadn = Zero THEN Num(Hundred)
    ELSE Num(RSub(Hundred, RDiv(Hundred, RAdd(R(1), RDiv(emaup, emadn)))))

\* min_periods=window: the first window - 1 rows are NaN
RSIIndicator(c, w) ==
    [t \in 1..Len(c) |->
        IF t < w THEN NaN
        ELSE RsiValue(Ewm(UpDirection(c), w, t), Ewm(DownDirection(c), w, t))]

\* the close series of length lo..hi over a set of prices
SeriesOver(S, lo, hi) == UNION {[1..n -> S] : n \in lo..hi}

\* the variables of the backtests, at rest while a function is applied on its own
AtRest ==
    /\ script = "none"
    /\ KELLY_FRACTION = Unset
    /\ TRADING_FEE_PCT = Unset
    /\ SLIPPAGE_PCT = Unset
    /\ df = <<>>
    /\ i = RSI_WINDOW
    /\ capital = Unset
    /\ position = FALSE
    /\ trades = <<>>
    /\ dates = <<>>
    /\ current_shares = Zero
    /\ total_pnl = Unset
    /\ trade_size = Unset
    /\ entry_portfolio_value = Unset
    /\ outcome = ""
    /\ metrics = NoMetrics

\* a close series of N rows and a window W, 1 <= W < N
InitRSI ==
    /\ AtRest
    /\ portfolio_values = <<>>
    /\ pc = "input"
    /\ close \in SeriesOver(Closes, 2, MaxSeries)
    /\ window \in 1..(Len(close) - 1)
    /\ rsi = <<>>

\* df['RSI'] = rsi.rsi()
ComputeRSI ==
    /\ pc = "input"
    /\ close # <<>>
    /\ rsi' = RSIIndicator(close, window)
    /\ pc' = "computed"
    /\ UNCHANGED <<script, KELLY_FRACTION, TRADING_FEE_PCT, SLIPPAGE_PCT, df, i,
                   capital, position, trades, portfolio_values, dates,
                   current_shares, total_pnl, trade_size, entry_portfolio_value,
                   outcome, metrics, close, window>>

SpecRSI == InitRSI /\ [][ComputeRSI]_vars

-----------------------------------------------------------------------------
(* The drawdown columns on any equity curve of positive values *)

InitDrawdown ==
    /\ AtRest
    /\ portfolio_values \in
           {[t \in 1..Len(e) |-> R(e[t])] : e \in SeriesOver(Equities, 1, MaxCurve)}
    /\ pc = "input"
    /\ close = <<>>
    /\ window = 0
    /\ rsi = <<>>

\* Cummax, Drawdown, max_drawdown, current_drawdown
ComputeDrawdown ==
    /\ pc = "input"
    /\ portfolio_values # <<>>
    /\ metrics' = [metrics EXCEPT
                     !.max_drawdown = MaxDrawdown(portfolio_values),
                     !.current_drawdown = CurrentDrawdown(portfolio_values)]
    /\ pc' = "computed"
    /\ UNCHANGED <<script, KELLY_FRACTION, TRADING_FEE_PCT, SLIPPAGE_PCT, df, i,
                   capital, position, trades, portfolio_values, dates,
                   current_shares, total_pnl, trade_size, entry_portfolio_value,
                   outcome, close, window, rsi>>

SpecDrawdown == InitDrawdown /\ [][ComputeDrawdown]_vars

-----------------------------------------------------------------------------
(* Properties *)

Last(xs) == xs[Len(xs)]

HasCurve == script \in {"rsi_strategy", "plot_simple_rsi"}

\* the realised PnL a SELL record carries ('trade_pnl' or 'pnl')
RecordedPnl(t) == IF script = "rsi_strategy" THEN t.trade_pnl ELSE t.pnl

\* the proceeds of a SELL record: shares at the price the script sold at
ExitValue(t) ==
    RMul(t.shares, IF script = "rsi_strategy" THEN t.effective_price ELSE t.price)

\* cash plus the open position at a close price
CashPlusPosition(price) ==
    IF position THEN RAdd(capital, RMul(current_shares, price)) ELSE capital

(* C1: at most one position is open: the ledger alternates BUY, SELL, BUY, *)
(* ... from a BUY, position is set exactly while a BUY is unmatched, and   *)
(* the dates of the ledger strictly increase in insertion order.           *)
C1_LedgerAlternates ==
    /\ \A k \in 1..Len(trades) :
        trades[k].type = IF k % 2 = 1 THEN "BUY" ELSE "SELL"
    /\ \A k \in 2..Len(trades) : trades[k - 1].date < trades[k].date
    /\ position = (Len(trades) % 2 = 1)

C1_Witness ==
    /\ script \in Scripts
    /\ Len(trades) >= 3
    /\ trades[3].type = "BUY"

(* C2: on every exit, the recorded PnL is the exit value minus the trade   *)
(* size fixed at the matching entry (the BUY record's trade_size), return  *)
(* is that PnL over the entry size times 100, and the SELL record carries  *)
(* the BUY record's trade_size.                                            *)
C2_PnlAgainstEntrySize ==
    \A k \in 2..Len(trades) :
        trades[k].type = "SELL" =>
            LET buy == trades[k - 1]
                sell == trades[k]
                pnl == RSub(ExitValue(sell), buy.trade_size)
            IN  /\ RecordedPnl(sell) = pnl
                /\ sell.return = ReturnPct(pnl, buy.trade_size)
                /\ sell.trade_size = buy.trade_size

(* C3: a bar of rsi_strategy.py whose RSI is undefined or exactly the      *)
(* threshold fires no transition: position, capital, current_shares, the   *)
(* ledger and total_pnl are unchanged, and the bar appends one equity      *)
(* point, cash plus the open position at the bar's close.                  *)
C3_BoundaryBarNoTransition ==
    [][ ( /\ script = "rsi_strategy"
          /\ pc = "loop"
          /\ i' = i + 1
          /\ Last(df').RSI \in {NaN, Num(R(RSI_OVERBOUGHT))} )
        => ( /\ position' = position
             /\ capital' = capital
             /\ current_shares' = current_shares
             /\ trades' = trades
             /\ total_pnl' = total_pnl
             /\ dates' = Append(dates, i)
             /\ portfolio_values' =
                    Append(portfolio_values, CashPlusPosition(Last(df').Close)) )
      ]_vars

C3_Witness ==
    /\ script = "rsi_strategy"
    /\ Len(df) = 3
    /\ df[1].RSI = NaN
    /\ FGt(df[2].RSI, Num(R(RSI_OVERBOUGHT)))
    /\ df[3].RSI = Num(R(RSI_OVERBOUGHT))
    /\ position
    /\ Len(trades) = 1

(* C4: when the series ends while the position is open, no closing trade   *)
(* is made up: the ledger has an odd number of records and ends with a     *)
(* BUY, and the last equity point is cash plus shares times the last close.*)
C4_OpenPositionAtEnd ==
    (pc = "done" /\ position) =>
        /\ Len(trades) % 2 = 1
        /\ Last(trades).type = "BUY"
        /\ Len(SellTrades(trades)) = (Len(trades) - 1) \div 2
        /\ HasCurve =>
              Last(portfolio_values)
                  = RAdd(capital, RMul(current_shares, Last(df).Close))

C4_Witness ==
    /\ pc = "done"
    /\ position
    /\ script = "rsi_strategy"
    /\ Len(trades) = 3
    /\ Last(df).Close # trades[3].price

(* C5, as amended: the equity curve holds one seed point (the first date   *)
(* of the table, the initial capital) and then exactly one point per bar   *)
(* walked, dated with that bar; the newest point is cash plus the open     *)
(* position at that bar's close.                                           *)
C5_OnePointPerBarAfterSeed ==
    HasCurve =>
        /\ Len(portfolio_values) = BarsWalked + 1
        /\ Len(dates) = BarsWalked + 1
        /\ dates[1] = 0
        /\ portfolio_values[1] = R(INITIAL_CAPITAL)
        /\ \A k \in 1..BarsWalked : dates[k + 1] = RSI_WINDOW + k - 1
        /\ BarsWalked > 0 =>
              Last(portfolio_values) = CashPlusPosition(Last(df).Close)

C5_Witness ==
    /\ HasCurve
    /\ pc = "done"
    /\ BarsWalked >= 3
    /\ position
    /\ Last(df).Close # Last(trades).price

(* C5, as stated: after the run the equity curve has exactly as many       *)
(* entries as bars walked, each dated with the bar that produced it, with  *)
(* no additional entries.                                                  *)
C5_OnePointPerBar ==
    (HasCurve /\ pc = "done") =>
        /\ Len(portfolio_values) = BarsWalked
        /\ Len(dates) = BarsWalked
        /\ \A k \in 1..Len(dates) : dates[k] = RSI_WINDOW + k - 1

(* C6: for a ledger with at least one SELL and only winning SELLs, the     *)
(* statistics of fixed_size_analysis.py do not fail and win_loss_ratio is  *)
(* +infinity.                                                              *)
C6_AllWinsRatioInfinite ==
    ( /\ script = "fixed_size_analysis"
      /\ pc = "done"
      /\ SellTrades(trades) # <<>>
      /\ \A k \in 1..Len(trades) :
            trades[k].type = "SELL" => RLt(Zero, trades[k].pnl) )
    => (outcome = "ok" /\ metrics.win_loss_ratio = Inf)

(* C7: a backtest that completes with no SELL trade (an empty ledger, or   *)
(* one unmatched BUY) does not end in an unhandled failure.                *)
C7_NoSellsNoUnhandledFailure ==
    (pc = "done" /\ script \in Scripts /\ SellTrades(trades) = <<>>)
        => outcome \notin {"KeyError", "NameError"}

NonDecreasing(values) ==
    \A t \in 2..Len(values) : RLe(values[t - 1], values[t])

(* C8: on an equity curve of positive values max_drawdown is a number, is  *)
(* never positive, and is 0 when the curve never decreases.                *)
C8_MaxDrawdownNonPositive ==
    (pc = "computed" /\ portfolio_values # <<>>) =>
        /\ metrics.max_drawdown.k = "num"
        /\ RLe(metrics.max_drawdown.v, Zero)
        /\ NonDecreasing(portfolio_values) => metrics.max_drawdown = Num(Zero)

C8_Witness ==
    /\ pc = "computed"
    /\ Len(portfolio_values) >= 3
    /\ NonDecreasing(portfolio_values)
    /\ portfolio_values[1] # Last(portfolio_values)

IsFlat(c) == \A t \in 1..Len(c) : c[t] = c[1]

(* C9, as amended: for a flat close series of length N and a window W,     *)
(* 1 <= W < N, every RSI entry after the initial window is exactly 100.    *)
C9_FlatSeriesIsHundred ==
    (pc = "computed" /\ close # <<>> /\ IsFlat(close)) =>
        \A t \in (window + 1)..Len(close) : rsi[t] = Num(Hundred)

C9_Witness ==
    /\ pc = "computed"
    /\ Len(close) = 4
    /\ IsFlat(close)
    /\ window = 2
    /\ Len(rsi) = 4

(* C9, as stated: for a flat close series every RSI entry after the        *)
(* initial window is exactly 50.                                           *)
C9_FlatSeriesIsFifty ==
    (pc = "computed" /\ close # <<>> /\ IsFlat(close)) =>
        \A t \in (window + 1)..Len(close) : rsi[t] = Num(R(50))

(* C10: in rsi_strategy.py, with KELLY_FRACTION in [0, 1] and fee plus     *)
(* slippage in [0, 1), capital and current_shares are never negative, and  *)
(* while no position is open current_shares is 0 and the newest equity     *)
(* point equals capital.                                                   *)
C10_CashAndSharesNonNegative ==
    script = "rsi_strategy" =>
        /\ RLe(Zero, capital)
        /\ RLe(Zero, current_shares)
        /\ ~position =>
              (current_shares = Zero /\ Last(portfolio_values) = capital)

C10_Witness ==
    /\ script = "rsi_strategy"
    /\ KELLY_FRACTION = R(1)
    /\ ~position
    /\ Len(trades) >= 2
    /\ RLt(Zero, capital)

\* the BUY a SELL at ledger position n closes: the entry appended before it
MatchingEntry(n) == trades[n - 1]

\* the 'strategy_pnl' column of the SELL rows
StrategyPnls ==
    LET sells == SellTrades(trades)
    IN  [n \in 1..Len(sells) |-> sells[n].strategy_pnl]

(* C11: in rsi_strategy.py every SELL's strategy_pnl is the cash after the *)
(* exit minus the portfolio value recorded at its matching BUY, total_pnl  *)
(* is the sum of strategy_pnl over the SELL trades, and whenever no        *)
(* position is open total_pnl equals capital minus INITIAL_CAPITAL.        *)
C11_TotalPnlIsRealizedEquityChange ==
    script = "rsi_strategy" =>
        /\ \A n \in 1..Len(trades) :
              IsSell(trades[n]) =>
                  /\ n > 1
                  /\ trades[n].strategy_pnl =
                         RSub(trades[n].portfolio_value,
                              MatchingEntry(n).portfolio_value)
        /\ total_pnl = SumSeq(StrategyPnls)
        /\ ~position => total_pnl = RSub(capital, R(INITIAL_CAPITAL))

C11_Witness ==
    /\ script = "rsi_strategy"
    /\ ~position
    /\ Len(SellTrades(trades)) = 2
    /\ total_pnl # Zero
    /\ StrategyPnls[1] # Zero
    /\ StrategyPnls[2] # Zero
    /\ total_pnl = RSub(capital, R(INITIAL_CAPITAL))

====
